---- MODULE Spec2Model ----
(***************************************************************************)
(* Model of the batch conversion driver of datasets/01_Convert_cubes.ipynb *)
(* (seismiqb): the configuration cell and the conversion loop.             *)
(*                                                                         *)
(* A path is a sequence of one-character strings, so that os.path.splitext *)
(* and '.'.join are computed and not assumed.  The filesystem is a function*)
(* from the paths that exist to the content stored there.                  *)
(*                                                                         *)
(* The state holds two executions of the loop cell (Runs) that start from  *)
(* the same paths, filesystem, RECREATE, FORMAT and QUANTIZE; Spec runs    *)
(* only the first, SpecPair runs both (they may differ in SHOW and         *)
(* DRY_RUN) so that two runs can be compared.                              *)
(***************************************************************************)
EXTENDS Integers, Sequences, FiniteSets

VARIABLES paths, RECREATE, FORMAT, QUANTIZE, SHOW, DRY_RUN,
          fs0, fail, pc, idx, path_converted, fs, log, status, fsAt

vars == <<paths, RECREATE, FORMAT, QUANTIZE, SHOW, DRY_RUN,
          fs0, fail, pc, idx, path_converted, fs, log, status, fsAt>>

config == <<paths, RECREATE, FORMAT, QUANTIZE, SHOW, DRY_RUN, fs0, fail>>

(* ---------------------------- bounds ----------------------------------- *)
\* largest number of cube paths the glob returns
MaxPaths == 2
\* longest path (in characters) drawn when the naming rule is checked alone
MaxPathLen == 4

Runs == {1, 2}

(* ---------------------------- paths ------------------------------------ *)
CubeSegy == <<"/", "d", "/", "a", ".", "s", "e", "g", "y">>
CubeSgy == <<"/", "d", "/", "a", ".", "s", "g", "y">>
CubeB == <<"/", "d", "/", "b", ".", "s", "g", "y">>

\* files the glob pattern '...amplitudes*.s*y' can match
CubeUniverse == {CubeSegy, CubeSgy, CubeB}

\* alphabet of the paths drawn when the naming rule is checked alone
PathChars == {"/", ".", "a"}

HDF5 == <<"h", "d", "f", "5">>
BLOSC == <<"b", "l", "o", "s", "c">>
Formats == {HDF5, BLOSC}

\* code points of the characters that occur in cube paths
Ord(c) ==
  CASE c = "." -> 46 [] c = "/" -> 47 [] c = "a" -> 97 [] c = "b" -> 98
    [] c = "d" -> 100 [] c = "e" -> 101 [] c = "g" -> 103 [] c = "s" -> 115
    [] c = "y" -> 121

\* str.__lt__ / __eq__ : lexicographic comparison used by sorted()
RECURSIVE StrLeq(_, _)
StrLeq(a, b) ==
  IF a = <<>> THEN TRUE
  ELSE IF b = <<>> THEN FALSE
  ELSE IF Ord(Head(a)) < Ord(Head(b)) THEN TRUE
  ELSE IF Ord(Head(a)) > Ord(Head(b)) THEN FALSE
  ELSE StrLeq(Tail(a), Tail(b))

\* sorted(glob(...)): the matched files in lexicographic order
RECURSIVE sorted(_)
sorted(S) ==
  IF S = {} THEN <<>>
  ELSE LET m == CHOOSE x \in S : \A y \in S : StrLeq(x, y)
       IN  <<m>> \o sorted(S \ {m})

\* str.rfind, 1-based; 0 when the character does not occur
rfind(p, c) ==
  LET hits == {i \in 1..Len(p) : p[i] = c}
  IN  IF hits = {} THEN 0 ELSE CHOOSE i \in hits : \A j \in hits : j <= i

\* os.path.splitext (genericpath._splitext): the extension starts at the
\* last dot of the last path component, leading dots of it not counted
splitext(p) ==
  LET sepIndex == rfind(p, "/")
      dotIndex == rfind(p, ".")
  IN  IF /\ dotIndex > sepIndex
         /\ \E k \in (sepIndex + 1)..(dotIndex - 1) : p[k] # "."
      THEN <<SubSeq(p, 1, dotIndex - 1), SubSeq(p, dotIndex, Len(p))>>
      ELSE <<p, <<>>>>

\* '.'.join((a, b))
join(a, b) == a \o <<".">> \o b

\* variant of path_converted that drops the quantization marker
PathConvertedNoMarker(path_cube, format, quantize) ==
  join(splitext(path_cube)[1], format)

\* path_converted of the loop body
PathConverted(path_cube, format, quantize) ==
  join(splitext(path_cube)[1],
       (IF quantize THEN <<"q">> ELSE <<>>) \o format)

(* ---------------------------- filesystem ------------------------------- *)
\* content of a file that was there before the run
Original == [kind |-> "original", src |-> <<>>, format |-> <<>>,
             quantize |-> FALSE]

\* content written by a completed conversion
Artifact(src, format, quantize) ==
  [kind |-> "converted", src |-> src, format |-> format,
   quantize |-> quantize]

\* content left behind by a conversion that failed half-way
Partial(src, format, quantize) ==
  [kind |-> "partial", src |-> src, format |-> format, quantize |-> quantize]

\* os.path.exists
exists(f, p) == p \in DOMAIN f

\* the filesystem f with content c stored at path p
Store(f, p, c) == [x \in DOMAIN f \cup {p} |-> IF x = p THEN c ELSE f[x]]

\* where geometry.convert(format, quantize) of a cube writes its artifact
convert_target(path_cube, format, quantize) ==
  PathConverted(path_cube, format, quantize)

(* ---------------------------- events ----------------------------------- *)
Event(i, op, src, dst) ==
  [i |-> i, op |-> op, src |-> src, dst |-> dst, format |-> <<>>,
   quantize |-> FALSE]

ConvertEvent(i, src, dst, format, quantize) ==
  [i |-> i, op |-> "convert", src |-> src, dst |-> dst, format |-> format,
   quantize |-> quantize]

DiagnosticOps == {"print_banner", "geometry.print", "geometry.print_textual",
                  "geometry.show", "geometry.show_quality_map", "plt.show",
                  "geometry_converted.print"}

path_cube(r) == paths[idx[r]]

\* variant of the banner printed without looking at SHOW
BannerAlways(r) == <<Event(idx[r], "print_banner", path_cube(r), <<>>)>>

\* if SHOW: print the banner
Banner(r) ==
  IF SHOW[r] THEN <<Event(idx[r], "print_banner", path_cube(r), <<>>)>>
  ELSE <<>>

\* if SHOW: geometry.print() ... plt.show()
PreDiagnostics(r) ==
  IF SHOW[r]
  THEN <<Event(idx[r], "geometry.print", path_cube(r), <<>>),
         Event(idx[r], "geometry.print_textual", path_cube(r), <<>>),
         Event(idx[r], "geometry.show", path_cube(r), <<>>),
         Event(idx[r], "geometry.show_quality_map", path_cube(r), <<>>),
         Event(idx[r], "plt.show", path_cube(r), <<>>)>>
  ELSE <<>>

\* if SHOW: geometry_converted.print()
PostDiagnostics(r) ==
  IF SHOW[r]
  THEN <<Event(idx[r], "geometry_converted.print", path_cube(r),
               path_converted[r])>>
  ELSE <<>>

(* ---------------------------- the gates -------------------------------- *)
\* variant of the loop without the missing-source gate
MissingGateOff(r) == FALSE

\* if not os.path.exists(path_cube)
MissingGate(r) == ~ exists(fs[r], path_cube(r))

\* variant of the gate that ignores RECREATE
ConvertedGateNoRecreate(r) ==
  exists(fs[r], PathConverted(path_cube(r), FORMAT, QUANTIZE))

\* variant of the loop without the converted-exists gate
ConvertedGateOff(r) == FALSE

\* if os.path.exists(path_converted) and not RECREATE
ConvertedGate(r) ==
  /\ exists(fs[r], PathConverted(path_cube(r), FORMAT, QUANTIZE))
  /\ ~ RECREATE

\* variant of the loop without the DRY_RUN branch
DryRunGateOff(r) == FALSE

\* if DRY_RUN
DryRunGate(r) == DRY_RUN[r]

(* ---------------------------- external calls --------------------------- *)
FailModes == {"SeismicGeometry", "quality_map", "convert", "convert_partial"}

\* does the external call `call` made for the current cube raise
Raises(r, call) == fail.at = idx[r] /\ fail.mode = call

\* variant in which the exception is caught and the loop continues
RaiseSwallowed(r) == pc' = [pc EXCEPT ![r] = "loop"]

\* an exception leaves the loop: there is no try/except around the calls
Raise(r) == pc' = [pc EXCEPT ![r] = "aborted"]

(* ---------------------------- initial states --------------------------- *)
\* files whose existence the run can observe
Relevant(ps, format, quantize) ==
  {ps[i] : i \in 1..Len(ps)}
    \cup {PathConverted(ps[i], format, quantize) : i \in 1..Len(ps)}

Oracles(n) ==
  {[at |-> 0, mode |-> "none"]}
    \cup [at : 1..n, mode : FailModes]

InitRun(live) ==
  /\ pc = [r \in Runs |-> IF r \in live THEN "loop" ELSE "off"]
  /\ idx = [r \in Runs |-> 0]
  /\ path_converted = [r \in Runs |-> <<>>]
  /\ fs = [r \in Runs |-> fs0]
  /\ log = [r \in Runs |-> <<>>]
  /\ status = [r \in Runs |-> [i \in 1..Len(paths) |-> "DISCOVERED"]]
  /\ fsAt = [r \in Runs |-> <<>>]

InitConfig ==
  /\ RECREATE \in BOOLEAN
  /\ FORMAT \in Formats
  /\ QUANTIZE \in BOOLEAN
  /\ \E F \in SUBSET Relevant(paths, FORMAT, QUANTIZE) :
       fs0 = [p \in F |-> Original]
  /\ fail \in Oracles(Len(paths))

\* the configuration cell, then one execution of the loop cell
Init ==
  /\ \E G \in SUBSET CubeUniverse :
       /\ Cardinality(G) <= MaxPaths
       /\ paths = sorted(G)
  /\ InitConfig
  /\ \E s \in BOOLEAN, d \in BOOLEAN :
       /\ SHOW = [r \in Runs |-> s]
       /\ DRY_RUN = [r \in Runs |-> d]
  /\ InitRun({1})

\* the same, with two executions that may differ in SHOW and DRY_RUN
InitPair ==
  /\ \E G \in SUBSET CubeUniverse :
       /\ Cardinality(G) <= MaxPaths
       /\ paths = sorted(G)
  /\ InitConfig
  /\ SHOW \in [Runs -> BOOLEAN]
  /\ DRY_RUN \in [Runs -> BOOLEAN]
  /\ InitRun(Runs)

RECURSIVE Strings(_)
\* the non-empty strings over PathChars of at most n characters
Strings(n) ==
  IF n = 0 THEN {}
  ELSE LET shorter == Strings(n - 1)
       IN  {<<c>> : c \in PathChars} \cup shorter
             \cup {s \o <<c>> : s \in shorter, c \in PathChars}

\* one execution whose list holds one arbitrary path
InitPath ==
  /\ \E p \in Strings(MaxPathLen) \cup CubeUniverse : paths = <<p>>
  /\ InitConfig
  /\ \E s \in BOOLEAN, d \in BOOLEAN :
       /\ SHOW = [r \in Runs |-> s]
       /\ DRY_RUN = [r \in Runs |-> d]
  /\ InitRun({1})

(* ---------------------------- the loop --------------------------------- *)
\* the second execution starts when the first has ended
Scheduled(r) == r = 1 \/ pc[1] \in {"done", "aborted"}

SetStatus(r, s) == status' = [status EXCEPT ![r][idx[r]] = s]

Emit(r, events) == log' = [log EXCEPT ![r] = @ \o events]

\* for path_cube in tqdm(paths): fetch the next path or leave the loop
NextCube(r) ==
  /\ Scheduled(r)
  /\ pc[r] = "loop"
  /\ fsAt' = [fsAt EXCEPT ![r] = Append(@, fs[r])]
  /\ IF idx[r] < Len(paths)
     THEN /\ idx' = [idx EXCEPT ![r] = @ + 1]
          /\ pc' = [pc EXCEPT ![r] = "gate"]
     ELSE /\ pc' = [pc EXCEPT ![r] = "done"]
          /\ idx' = idx
  /\ UNCHANGED <<config, path_converted, fs, log, status>>

\* if not os.path.exists(path_cube): continue
SkipMissing(r) ==
  /\ Scheduled(r)
  /\ pc[r] = "gate"
  /\ MissingGate(r)
  /\ SetStatus(r, "SKIPPED_MISSING")
  /\ pc' = [pc EXCEPT ![r] = "loop"]
  /\ UNCHANGED <<config, idx, path_converted, fs, log, fsAt>>

\* path_converted = ...; if it exists and not RECREATE: print, continue
SkipExists(r) ==
  /\ Scheduled(r)
  /\ pc[r] = "gate"
  /\ ~ MissingGate(r)
  /\ ConvertedGate(r)
  /\ path_converted' =
       [path_converted EXCEPT ![r] = PathConverted(path_cube(r), FORMAT, QUANTIZE)]
  /\ Emit(r, <<Event(idx[r], "print_skip", <<>>, path_converted'[r])>>)
  /\ SetStatus(r, "SKIPPED_EXISTS")
  /\ pc' = [pc EXCEPT ![r] = "loop"]
  /\ UNCHANGED <<config, idx, fs, fsAt>>

\* if DRY_RUN: print the source and the destination, continue
SkipDryRun(r) ==
  /\ Scheduled(r)
  /\ pc[r] = "gate"
  /\ ~ MissingGate(r)
  /\ ~ ConvertedGate(r)
  /\ DryRunGate(r)
  /\ path_converted' =
       [path_converted EXCEPT ![r] = PathConverted(path_cube(r), FORMAT, QUANTIZE)]
  /\ Emit(r, <<Event(idx[r], "print_dry", path_cube(r), path_converted'[r])>>)
  /\ SetStatus(r, "SKIPPED_DRYRUN")
  /\ pc' = [pc EXCEPT ![r] = "loop"]
  /\ UNCHANGED <<config, idx, fs, fsAt>>

\* no gate applies: print the banner if SHOW and go on to construction
Proceed(r) ==
  /\ Scheduled(r)
  /\ pc[r] = "gate"
  /\ ~ MissingGate(r)
  /\ ~ ConvertedGate(r)
  /\ ~ DryRunGate(r)
  /\ path_converted' =
       [path_converted EXCEPT ![r] = PathConverted(path_cube(r), FORMAT, QUANTIZE)]
  /\ Emit(r, Banner(r))
  /\ pc' = [pc EXCEPT ![r] = "construct"]
  /\ UNCHANGED <<config, idx, fs, status, fsAt>>

\* geometry = SeismicGeometry(path_cube, ...) returns
Construct(r) ==
  /\ Scheduled(r)
  /\ pc[r] = "construct"
  /\ ~ Raises(r, "SeismicGeometry")
  /\ Emit(r, <<Event(idx[r], "SeismicGeometry", path_cube(r), <<>>)>>)
  /\ SetStatus(r, "CONSTRUCTED")
  /\ pc' = [pc EXCEPT ![r] = "qmap"]
  /\ UNCHANGED <<config, idx, path_converted, fs, fsAt>>

\* geometry = SeismicGeometry(path_cube, ...) raises
ConstructFails(r) ==
  /\ Scheduled(r)
  /\ pc[r] = "construct"
  /\ Raises(r, "SeismicGeometry")
  /\ Emit(r, <<Event(idx[r], "SeismicGeometry", path_cube(r), <<>>)>>)
  /\ Raise(r)
  /\ UNCHANGED <<config, idx, path_converted, fs, status, fsAt>>

\* qmap = geometry.quality_map returns; then the diagnostics if SHOW
QualityMap(r) ==
  /\ Scheduled(r)
  /\ pc[r] = "qmap"
  /\ ~ Raises(r, "quality_map")
  /\ Emit(r, <<Event(idx[r], "quality_map", path_cube(r), <<>>)>>
               \o PreDiagnostics(r))
  /\ pc' = [pc EXCEPT ![r] = "convert"]
  /\ UNCHANGED <<config, idx, path_converted, fs, status, fsAt>>

\* qmap = geometry.quality_map raises
QualityMapFails(r) ==
  /\ Scheduled(r)
  /\ pc[r] = "qmap"
  /\ Raises(r, "quality_map")
  /\ Emit(r, <<Event(idx[r], "quality_map", path_cube(r), <<>>)>>)
  /\ Raise(r)
  /\ UNCHANGED <<config, idx, path_converted, fs, status, fsAt>>

\* geometry_converted = geometry.convert(format=FORMAT, quantize=QUANTIZE)
\* returns; then geometry_converted.print() if SHOW
Convert(r) ==
  /\ Scheduled(r)
  /\ pc[r] = "convert"
  /\ ~ Raises(r, "convert")
  /\ ~ Raises(r, "convert_partial")
  /\ LET target == convert_target(path_cube(r), FORMAT, QUANTIZE)
     IN  /\ Emit(r, <<ConvertEvent(idx[r], path_cube(r), target, FORMAT, QUANTIZE)>>
                      \o PostDiagnostics(r))
         /\ fs' = [fs EXCEPT ![r] =
                     Store(@, target, Artifact(path_cube(r), FORMAT, QUANTIZE))]
  /\ SetStatus(r, "CONVERTED")
  /\ pc' = [pc EXCEPT ![r] = "loop"]
  /\ UNCHANGED <<config, idx, path_converted, fsAt>>

\* geometry.convert(...) raises, before or after it wrote part of the artifact
ConvertFails(r) ==
  /\ Scheduled(r)
  /\ pc[r] = "convert"
  /\ Raises(r, "convert") \/ Raises(r, "convert_partial")
  /\ LET target == convert_target(path_cube(r), FORMAT, QUANTIZE)
     IN  /\ Emit(r, <<ConvertEvent(idx[r], path_cube(r), target, FORMAT, QUANTIZE)>>)
         /\ fs' = [fs EXCEPT ![r] =
                     IF Raises(r, "convert_partial")
                     THEN Store(@, target, Partial(path_cube(r), FORMAT, QUANTIZE))
                     ELSE @]
  /\ Raise(r)
  /\ UNCHANGED <<config, idx, path_converted, status, fsAt>>

Next ==
  \E r \in Runs :
    \/ NextCube(r)
    \/ SkipMissing(r)
    \/ SkipExists(r)
    \/ SkipDryRun(r)
    \/ Proceed(r)
    \/ Construct(r)
    \/ ConstructFails(r)
    \/ QualityMap(r)
    \/ QualityMapFails(r)
    \/ Convert(r)
    \/ ConvertFails(r)

Spec == Init /\ [][Next]_vars

SpecPair == InitPair /\ [][Next]_vars

SpecPath == InitPath /\ [][Next]_vars

(* ---------------------------- observations ----------------------------- *)
\* positions of the log of run r
Pos(r) == 1..Len(log[r])

\* run r logged operation op for the cube at list position i
Has(r, i, op) == \E k \in Pos(r) : log[r][k].i = i /\ log[r][k].op = op

\* the cube at position i has been fetched by run r
Reached(r, i) == i \in 1..Len(fsAt[r])

\* run r has left the iteration of the cube at position i through the loop head
Completed(r, i) == i >= 1 /\ i < Len(fsAt[r])

Ended(r) == pc[r] \in {"done", "aborted"}

Terminal == {"SKIPPED_MISSING", "SKIPPED_EXISTS", "SKIPPED_DRYRUN", "CONVERTED"}

Skipped == {"SKIPPED_MISSING", "SKIPPED_EXISTS", "SKIPPED_DRYRUN"}

ExternalOps == {"SeismicGeometry", "quality_map", "convert"}

Target(i) == PathConverted(paths[i], FORMAT, QUANTIZE)

\* the (source, destination) pairs of the events of kind op, in order
RECURSIVE PairsOf(_, _)
PairsOf(l, op) ==
  IF l = <<>> THEN <<>>
  ELSE (IF Head(l).op = op THEN <<<<Head(l).src, Head(l).dst>>>> ELSE <<>>)
         \o PairsOf(Tail(l), op)

\* the log without the diagnostic output
RECURSIVE WithoutDiagnostics(_)
WithoutDiagnostics(l) ==
  IF l = <<>> THEN <<>>
  ELSE (IF Head(l).op \in DiagnosticOps THEN <<>> ELSE <<Head(l)>>)
         \o WithoutDiagnostics(Tail(l))

\* the external call of the oracle has been made by run r
CallOf(mode) == IF mode = "convert_partial" THEN "convert" ELSE mode

Raised(r) == fail.at >= 1 /\ Has(r, fail.at, CallOf(fail.mode))

(* ---------------------------- C1 --------------------------------------- *)
\* C1: with DRY_RUN true a run never calls geometry construction or
\* conversion (nor any other external operation) and the filesystem stays
\* the initial one, whatever the paths, the files, RECREATE, FORMAT,
\* QUANTIZE and SHOW are.
C1_DryRunDoesNothing ==
  \A r \in Runs :
    DRY_RUN[r] =>
      /\ \A k \in Pos(r) : log[r][k].op \notin ExternalOps
      /\ fs[r] = fs0

C1_Witness ==
  /\ DRY_RUN[1] /\ pc[1] = "done" /\ Len(paths) = 2
  /\ Has(1, 1, "print_dry") /\ Has(1, 2, "print_dry")
  /\ RECREATE /\ exists(fs0, Target(1))

(* ---------------------------- C2 --------------------------------------- *)
\* C2 as stated: a cube whose converted path exists when the cube is
\* reached, with RECREATE false, is neither constructed nor converted, gets
\* a skip notice, and its iteration leaves the filesystem as it was.
C2_AsStated ==
  \A r \in Runs : \A i \in 1..Len(paths) :
    (Completed(r, i) /\ exists(fsAt[r][i], Target(i)) /\ ~ RECREATE) =>
      /\ ~ Has(r, i, "SeismicGeometry")
      /\ ~ Has(r, i, "convert")
      /\ \E k \in Pos(r) : /\ log[r][k].i = i
                           /\ log[r][k].op = "print_skip"
                           /\ log[r][k].dst = Target(i)
      /\ fsAt[r][i + 1] = fsAt[r][i]

\* C2 amended: the same for a cube that itself exists when it is reached
\* (a missing cube is skipped by the first gate, without a notice).
C2_SkipExisting ==
  \A r \in Runs : \A i \in 1..Len(paths) :
    (/\ Completed(r, i)
     /\ exists(fsAt[r][i], paths[i])
     /\ exists(fsAt[r][i], Target(i))
     /\ ~ RECREATE) =>
      /\ ~ Has(r, i, "SeismicGeometry")
      /\ ~ Has(r, i, "convert")
      /\ \E k \in Pos(r) : /\ log[r][k].i = i
                           /\ log[r][k].op = "print_skip"
                           /\ log[r][k].dst = Target(i)
      /\ fsAt[r][i + 1] = fsAt[r][i]

C2_Witness ==
  /\ ~ RECREATE /\ Completed(1, 1)
  /\ exists(fsAt[1][1], paths[1]) /\ exists(fsAt[1][1], Target(1))
  /\ status[1][1] = "SKIPPED_EXISTS"

(* ---------------------------- C3 --------------------------------------- *)
\* C3: a cube path that does not exist when it is reached is neither
\* constructed nor converted, nothing is emitted for it, no exception ends
\* the run there, the filesystem is left alone and the loop goes on.
C3_MissingSkippedSilently ==
  \A r \in Runs : \A i \in 1..Len(paths) :
    (Reached(r, i) /\ ~ exists(fsAt[r][i], paths[i])) =>
      /\ \A k \in Pos(r) : log[r][k].i # i
      /\ ~ (pc[r] = "aborted" /\ idx[r] = i)
      /\ idx[r] = i => pc[r] \in {"gate", "loop", "done"}
      /\ (idx[r] > i \/ pc[r] \in {"loop", "done"}) =>
           status[r][i] = "SKIPPED_MISSING"
      /\ Completed(r, i) => fsAt[r][i + 1] = fsAt[r][i]

C3_Witness ==
  /\ Len(paths) = 2 /\ Len(fsAt[1]) = 2
  /\ ~ exists(fsAt[1][1], paths[1])
  /\ status[1][1] = "SKIPPED_MISSING"
  /\ idx[1] = 2 /\ pc[1] = "construct"

(* ---------------------------- C4 --------------------------------------- *)
\* the cube at position i was constructed, then converted with the
\* configured FORMAT and QUANTIZE, and its artifact was at the converted
\* path when the iteration ended
Reconverted(r, i) ==
  /\ \E j \in Pos(r), k \in Pos(r) :
       /\ j < k
       /\ log[r][j].i = i /\ log[r][j].op = "SeismicGeometry"
       /\ log[r][j].src = paths[i]
       /\ log[r][k].i = i /\ log[r][k].op = "convert"
       /\ log[r][k].format = FORMAT /\ log[r][k].quantize = QUANTIZE
  /\ Completed(r, i)
  /\ exists(fsAt[r][i + 1], Target(i))
  /\ fsAt[r][i + 1][Target(i)] = Artifact(paths[i], FORMAT, QUANTIZE)

IsExtensionAt(p, k) ==
  /\ k >= 1 /\ k < Len(p)
  /\ p[k + 1] = "."
  /\ \A j \in (k + 2)..Len(p) : p[j] \notin {".", "/"}
  /\ \E j \in 1..k : p[j] # "." /\ \A m \in j..k : p[m] # "/"

NamingRule(p, format, quantize, dst) ==
  \E k \in 0..Len(p) :
    /\ \/ IsExtensionAt(p, k)
       \/ k = Len(p) /\ ~ \E n \in 1..Len(p) : IsExtensionAt(p, n)
    /\ dst = SubSeq(p, 1, k) \o <<".">>
               \o (IF quantize THEN <<"q">> ELSE <<>>) \o format

\* C5: the converted path the driver computes is the cube path with its
\* extension replaced by FORMAT, FORMAT prefixed by 'q' exactly when
\* QUANTIZE is true (/d/a.sgy, 'hdf5', false gives /d/a.hdf5), whatever the
\* filesystem, RECREATE, SHOW and DRY_RUN are.
C5_ConvertedPathNaming ==
  \A r \in Runs :
    /\ \A k \in Pos(r) :
         log[r][k].op \in {"print_skip", "print_dry"} =>
           /\ NamingRule(paths[log[r][k].i], FORMAT, QUANTIZE, log[r][k].dst)
           /\ (paths[log[r][k].i] = CubeSgy /\ FORMAT = HDF5 /\ ~ QUANTIZE) =>
                log[r][k].dst = <<"/", "d", "/", "a", ".", "h", "d", "f", "5">>
    /\ pc[r] \in {"construct", "qmap", "convert"} =>
         NamingRule(path_cube(r), FORMAT, QUANTIZE, path_converted[r])

C5_Witness ==
  /\ QUANTIZE /\ Has(1, 1, "print_dry")
  /\ \E n \in 1..Len(paths[1]) : IsExtensionAt(paths[1], n)
  /\ paths[1][1] = "."

(* ---------------------------- C6 --------------------------------------- *)
\* C6: the (source, destination) pairs a dry run reports are, in order, the
\* pairs for which a run with DRY_RUN false, started from the same state
\* and ending without a failure, invokes conversion.
C6_DryRunPredictsConversions ==
  (/\ pc[1] = "done" /\ pc[2] = "done"
   /\ DRY_RUN[1] /\ ~ DRY_RUN[2]) =>
     PairsOf(log[1], "print_dry") = PairsOf(log[2], "convert")

(* ---------------------------- C7 --------------------------------------- *)
\* C7: once an external call has raised for a cube, the run is aborted at
\* that cube: the failing call is the last thing the run did and was made
\* once, no later cube has been fetched, constructed, converted or
\* reported, and what was written stays (the initial files, the artifacts
\* of earlier conversions, the partial artifact of the failing one).
C7_FailureAbortsRun ==
  \A r \in Runs :
    Raised(r) =>
      /\ pc[r] = "aborted" /\ idx[r] = fail.at
      /\ log[r][Len(log[r])].i = fail.at
      /\ log[r][Len(log[r])].op = CallOf(fail.mode)
      /\ Cardinality({k \in Pos(r) : /\ log[r][k].i = fail.at
                                     /\ log[r][k].op = CallOf(fail.mode)}) = 1
      /\ \A k \in Pos(r) : log[r][k].i <= fail.at
      /\ \A i \in 1..Len(paths) : i > fail.at => status[r][i] = "DISCOVERED"
      /\ Len(fsAt[r]) = fail.at
      /\ \A p \in DOMAIN fs0 : exists(fs[r], p)
      /\ \A k \in Pos(r) :
           (log[r][k].op = "convert" /\ log[r][k].i < fail.at) =>
             exists(fs[r], log[r][k].dst)
      /\ fail.mode = "convert_partial" =>
           /\ exists(fs[r], Target(fail.at))
           /\ fs[r][Target(fail.at)].kind = "partial"

C7_Witness ==
  /\ Raised(1) /\ fail.at = 1 /\ fail.mode = "convert_partial"
  /\ Len(paths) = 2 /\ exists(fs[1], paths[2])
  /\ pc[1] = "aborted"

(* ---------------------------- C8 --------------------------------------- *)
\* what the gates, taken in the order missing source, converted exists and
\* not RECREATE, DRY_RUN, decide for the cube at position i of run r
Decision(r, i) ==
  IF ~ exists(fsAt[r][i], paths[i]) THEN "SKIPPED_MISSING"
  ELSE IF exists(fsAt[r][i], Target(i)) /\ ~ RECREATE THEN "SKIPPED_EXISTS"
  ELSE IF DRY_RUN[r] THEN "SKIPPED_DRYRUN"
  ELSE "CONVERTED"

\* the part of C8 that holds in every state
C8_Safety ==
  \A r \in Runs : \A i \in 1..Len(paths) :
    /\ ~ Reached(r, i) => status[r][i] = "DISCOVERED"
    /\ (Reached(r, i) /\ status[r][i] \in Terminal) =>
         status[r][i] = Decision(r, i)
    /\ (Reached(r, i) /\ status[r][i] = "CONSTRUCTED") =>
         Decision(r, i) = "CONVERTED"
    /\ status[r][i] \in Skipped =>
         \A k \in Pos(r) : log[r][k].i = i => log[r][k].op \notin ExternalOps
    /\ status[r][i] = "CONVERTED" =>
         \E j \in Pos(r), k \in Pos(r) :
           /\ j < k
           /\ log[r][j].i = i /\ log[r][j].op = "SeismicGeometry"
           /\ log[r][k].i = i /\ log[r][k].op = "convert"
    /\ \A op \in ExternalOps :
         Cardinality({k \in Pos(r) : log[r][k].i = i /\ log[r][k].op = op}) <= 1

\* a step changes the state of a cube only by one transition of the per-cube
\* state machine, and never out of a terminal state
C8_Step ==
  \A r \in Runs : \A i \in 1..Len(paths) :
    \/ status'[r][i] = status[r][i]
    \/ status[r][i] = "DISCOVERED"
         /\ status'[r][i] \in Skipped \cup {"CONSTRUCTED"}
    \/ status[r][i] = "CONSTRUCTED" /\ status'[r][i] = "CONVERTED"

C10_AtMostOncePerConvertedPath ==
  \A r \in Runs :
    /\ ~ RECREATE =>
         \A j \in Pos(r) :
           log[r][j].op = "convert" =>
             /\ ~ exists(fs0, log[r][j].dst)
             /\ \A k \in Pos(r) :
                  (log[r][k].op = "convert" /\ log[r][k].dst = log[r][j].dst)
                    => k = j
    /\ \A j \in Pos(r), k \in Pos(r) :
         (/\ j < k
          /\ log[r][j].op = "convert" /\ log[r][k].op = "convert"
          /\ log[r][j].dst = log[r][k].dst
          /\ Completed(r, log[r][k].i)) =>
            /\ RECREATE
            /\ fsAt[r][log[r][k].i + 1][log[r][k].dst].src = log[r][k].src
            /\ log[r][j].src # log[r][k].src

C10_Witness ==
  /\ ~ RECREATE /\ ~ DRY_RUN[1] /\ pc[1] = "done"
  /\ paths = <<CubeSegy, CubeSgy>>
  /\ exists(fs0, CubeSegy) /\ exists(fs0, CubeSgy)
  /\ status[1][1] = "CONVERTED" /\ status[1][2] = "SKIPPED_EXISTS"

\* the second half of C10 happens: two cubes converted to one destination
C10_OverwriteReached ==
  /\ RECREATE /\ pc[1] = "done" /\ Len(paths) = 2
  /\ PairsOf(log[1], "convert")
       = <<<<CubeSegy, Target(1)>>, <<CubeSgy, Target(1)>>>>
  /\ fs[1][Target(1)].src = CubeSgy

TypeOK ==
  /\ \A r \in Runs : pc[r] \in {"off", "loop", "gate", "construct", "qmap",
                                "convert", "done", "aborted"}
  /\ \A r \in Runs : idx[r] \in 0..Len(paths)
====
